---- MODULE Spec2Model ----
(***************************************************************************)
(* Verification model of ufedmm:                                           *)
(*   - integrators.py : GeodesicBAOABIntegrator, the step program it        *)
(*     builds and the execution of that program, one computation step per   *)
(*     action;                                                              *)
(*   - analysis.py : Analyzer.__init__ (binning, anchor filtering) and      *)
(*     Analyzer.free_energy_functions (variances, kernel closures, the      *)
(*     outcome of the fit).                                                 *)
(*                                                                         *)
(* Numbers.  Positions, velocities and forces are reals in the program;     *)
(* here they are exact integers in units chosen so that every quantity the  *)
(* integrator computes is a whole number:                                   *)
(*   velocity unit  u_v,  position unit  u_x = dt*u_v/K  with               *)
(*   K = 2*lcm(1..MaxRattles), so that the drift (0.5/n)*dt*v is            *)
(*   (K/(2n))*v position units for every n in 1..MaxRattles;                *)
(*   a force field gives the kick 0.5*dt*f/m directly in velocity units.    *)
(* The arithmetic is exact (no floating-point rounding is modelled).        *)
(***************************************************************************)
EXTENDS Integers, Sequences, FiniteSets, TLC

VARIABLES
    \* ---- integrator (integrators.py) ----
    rattles,      \* self._rattles
    friction,     \* global variable 'friction'
    program,      \* the computation steps added by __init__
    pc,           \* 0: between timesteps; k: step k of program is next
    x, v, x0,     \* per-dof positions, velocities, saved positions
    irattle,      \* global variable 'irattle'
    field,        \* the force field of the system (a function of positions)
    constrained,  \* whether the system has a holonomic constraint
    nsteps,       \* timesteps completed
    \* ---- history of the execution (observation only) ----
    phases,       \* phases entered in the current timestep, in order
    phase,        \* index (0..5) of the phase of the last executed step
    ops,          \* operations executed in the current phase, in order
    xPre, vPre,   \* x and v before the last executed step
    xA, vA,       \* x and v when the current phase was entered
    xOrig,        \* x at construction
    hist,         \* completed timesteps ("step") and velocity negations ("neg")
    \* ---- analyzer (analysis.py) ----
    cvs,          \* ufed.variables: the CV descriptors
    bins,         \* the bins argument: an integer or a list
    table,        \* the dataframe: a sequence of rows
    sigma,        \* the sigma argument of free_energy_functions
    apc,          \* "new" | "built" | "fitted" | an exception name
    histogram,    \* self.histogram
    centers,      \* self.centers
    mean_forces,  \* self.mean_forces
    cells,        \* flat cell index of every anchor, in order (observation)
    forces,       \* the restraint forces computed in __init__ (observation)
    variances,    \* the per-dimension kernel variances
    exponent,     \* the kernel-exponent closures: what each evaluates with
    derivative    \* the kernel-derivative closures: what each evaluates with

ivars == <<rattles, friction, program, pc, x, v, x0, irattle, field,
           constrained, nsteps>>
hvars == <<phases, phase, ops, xPre, vPre, xA, vA, xOrig, hist>>
avars == <<cvs, bins, table, sigma, apc, histogram, centers, mean_forces,
           cells, forces, variances, exponent, derivative>>
vars == <<ivars, hvars, avars>>

(***************************************************************************)
(* Bounds                                                                  *)
(***************************************************************************)
MaxRattles == 3
MaxSteps == 2

Max(a, b) == IF a >= b THEN a ELSE b
Min(a, b) == IF a <= b THEN a ELSE b
Abs(a) == IF a >= 0 THEN a ELSE -a

RECURSIVE Gcd(_, _)
Gcd(a, b) == IF b = 0 THEN a ELSE Gcd(b, a % b)

RECURSIVE LcmUpTo(_)
LcmUpTo(n) == IF n <= 1 THEN 1 ELSE LET l == LcmUpTo(n - 1) IN (l * n) \div Gcd(l, n)

\* position units per (dt * velocity unit)
K == 2 * LcmUpTo(MaxRattles)

Dofs == 1..2

\* the system's constraint, when it has one: a rigid bond x[2] - x[1] = BondLength
BondLength == K

(***************************************************************************)
(* The step program (integrators.py, GeodesicBAOABIntegrator.__init__)     *)
(*                                                                         *)
(* A computation step is a record: type (the CustomIntegrator step type),  *)
(* target and expr as in CustomIntegrator.__repr__, the number the f-string *)
(* interpolates into expr as the rational num/den (0/1 when there is none), *)
(* by, the builder that added the step ("U": addUpdateContextState in      *)
(* __init__, "A": _A, "B": _B, "O": _O), and ph, the index of that builder  *)
(* call in __init__ (0 for addUpdateContextState, then 1..5).               *)
(***************************************************************************)
Step(type, target, expr, num, den, by, ph) ==
    [type |-> type, target |-> target, expr |-> expr, num |-> num, den |-> den,
     by |-> by, ph |-> ph]

\* _A with the while block left out for rattles > 1 (a mutation of _A)
A_NoLoop(n, ph) ==
    <<Step("ComputePerDof", "x", "x + c*dt*v", 1, 2 * Max(1, n), "A", ph)>>
    \o (IF n > 0
        THEN <<Step("ComputePerDof", "x0", "x", 0, 1, "A", ph),
               Step("ConstrainPositions", "", "", 0, 1, "A", ph),
               Step("ComputePerDof", "v", "v + (x - x0)/(c*dt)", 1, 2 * n, "A", ph),
               Step("ConstrainVelocities", "", "", 0, 1, "A", ph)>>
        ELSE <<>>)

\* _A with the drift of every substep a full half step (a mutation of _A)
A_FullDrift(n, ph) ==
    (IF n > 1
     THEN <<Step("ComputeGlobal", "irattle", "0", 0, 1, "A", ph),
            Step("WhileBlock", "", "irattle < n", n, 1, "A", ph)>>
     ELSE <<>>)
    \o <<Step("ComputePerDof", "x", "x + c*dt*v", 1, 2, "A", ph)>>
    \o (IF n > 0
        THEN <<Step("ComputePerDof", "x0", "x", 0, 1, "A", ph),
               Step("ConstrainPositions", "", "", 0, 1, "A", ph),
               Step("ComputePerDof", "v", "v + (x - x0)/(c*dt)", 1, 2 * n, "A", ph),
               Step("ConstrainVelocities", "", "", 0, 1, "A", ph)>>
        ELSE <<>>)
    \o (IF n > 1
        THEN <<Step("ComputeGlobal", "irattle", "irattle + 1", 0, 1, "A", ph),
               Step("EndBlock", "", "", 0, 1, "A", ph)>>
        ELSE <<>>)

\* GeodesicBAOABIntegrator._A
A_(n, ph) ==
    (IF n > 1
     THEN <<Step("ComputeGlobal", "irattle", "0", 0, 1, "A", ph),
            Step("WhileBlock", "", "irattle < n", n, 1, "A", ph)>>
     ELSE <<>>)
    \o <<Step("ComputePerDof", "x", "x + c*dt*v", 1, 2 * Max(1, n), "A", ph)>>
    \o (IF n > 0
        THEN <<Step("ComputePerDof", "x0", "x", 0, 1, "A", ph),
               Step("ConstrainPositions", "", "", 0, 1, "A", ph),
               Step("ComputePerDof", "v", "v + (x - x0)/(c*dt)", 1, 2 * n, "A", ph),
               Step("ConstrainVelocities", "", "", 0, 1, "A", ph)>>
        ELSE <<>>)
    \o (IF n > 1
        THEN <<Step("ComputeGlobal", "irattle", "irattle + 1", 0, 1, "A", ph),
               Step("EndBlock", "", "", 0, 1, "A", ph)>>
        ELSE <<>>)

\* _B constraining velocities whatever rattles is (a mutation of _B)
B_AlwaysConstrain(n, ph) ==
    <<Step("ComputePerDof", "v", "v + 0.5*dt*f/m", 0, 1, "B", ph),
      Step("ConstrainVelocities", "", "", 0, 1, "B", ph)>>

\* GeodesicBAOABIntegrator._B
B_(n, ph) ==
    <<Step("ComputePerDof", "v", "v + 0.5*dt*f/m", 0, 1, "B", ph)>>
    \o (IF n > 0 THEN <<Step("ConstrainVelocities", "", "", 0, 1, "B", ph)>> ELSE <<>>)

\* GeodesicBAOABIntegrator._O
O_(n, ph) ==
    <<Step("ComputePerDof", "v", "z*v + sqrt((1 - z*z)*kT/m)*gaussian", 0, 1, "O", ph)>>
    \o (IF n > 0 THEN <<Step("ConstrainVelocities", "", "", 0, 1, "O", ph)>> ELSE <<>>)

\* __init__ with the last two phases added in the order _B, _A (a mutation)
Build_Swapped(n) ==
    <<Step("UpdateContextState", "", "", 0, 1, "U", 0)>>
    \o B_(n, 1) \o A_(n, 2) \o O_(n, 3) \o B_(n, 4) \o A_(n, 5)

\* __init__ with the closing _B call left out (a mutation)
Build_Lopsided(n) ==
    <<Step("UpdateContextState", "", "", 0, 1, "U", 0)>>
    \o B_(n, 1) \o A_(n, 2) \o O_(n, 3) \o A_(n, 4)

\* GeodesicBAOABIntegrator.__init__: the computation steps it adds
Build(n) ==
    <<Step("UpdateContextState", "", "", 0, 1, "U", 0)>>
    \o B_(n, 1) \o A_(n, 2) \o O_(n, 3) \o A_(n, 4) \o B_(n, 5)

(***************************************************************************)
(* The system the integrator drives: forces and constraints                *)
(***************************************************************************)
Sgn(a) == IF a > 0 THEN 1 ELSE IF a < 0 THEN -1 ELSE 0

Fields == {"uniform", "well", "wave"}

\* the kick 0.5*dt*f/m, in velocity units, of force field fld at positions pos
Kick(fld, pos) ==
    [d \in Dofs |->
        CASE fld = "uniform" -> 2 * d
          [] fld = "well"    -> -2 * Sgn(pos[d] - 3)
          [] fld = "wave"    -> 2 * ((pos[d] % 3) - 1)]

OnManifold(pos) == pos[2] - pos[1] = BondLength

\* constrain positions: equal masses, the bond length restored symmetrically
ProjectPositions(pos) ==
    IF constrained
    THEN LET delta == pos[2] - pos[1] - BondLength
         IN [d \in Dofs |-> IF d = 1 THEN pos[1] + delta \div 2
                                     ELSE pos[2] - (delta - delta \div 2)]
    ELSE pos

\* constrain velocities: equal masses, the relative velocity along the bond removed
ProjectVelocities(vel) ==
    IF constrained
    THEN [d \in Dofs |-> (vel[1] + vel[2]) \div 2]
    ELSE vel

\* z = exp(-friction*dt) for the two frictions at which z is an exact number:
\* 1 without friction, 0 in the overdamped limit (friction*dt so large that
\* exp returns 0); the nonzero friction below stands for that limit
Z(fr) == IF fr = 0 THEN 1 ELSE 0

Frictions == {0, 1000}
Gaussians == {-1, 1}
\* sqrt(kT/m) in velocity units
ThermalSpeed == 2

(***************************************************************************)
(* Execution of the step program, one computation step per action          *)
(***************************************************************************)
Running == pc \in 1..Len(program)
Cur == program[pc]
Is(type, target, expr) ==
    /\ Running
    /\ Cur.type = type /\ Cur.target = target /\ Cur.expr = expr

\* the first EndBlock after step p, and the last WhileBlock before it
MatchEnd(p) ==
    CHOOSE j \in (p + 1)..Len(program) :
        /\ program[j].type = "EndBlock"
        /\ \A i \in (p + 1)..(j - 1) : program[i].type # "EndBlock"
MatchBegin(p) ==
    CHOOSE j \in 1..(p - 1) :
        /\ program[j].type = "WhileBlock"
        /\ \A i \in (j + 1)..(p - 1) : program[i].type # "WhileBlock"

\* the history kept of the step being executed
Observe(op) ==
    /\ xPre' = x
    /\ vPre' = v
    /\ IF Cur.ph # phase
       THEN /\ phases' = Append(phases, Cur.by)
            /\ phase' = Cur.ph
            /\ ops' = <<op>>
            /\ xA' = x
            /\ vA' = v
       ELSE /\ ops' = Append(ops, op)
            /\ UNCHANGED <<phases, phase, xA, vA>>
    /\ UNCHANGED <<xOrig, hist>>

Fixed == UNCHANGED <<rattles, friction, program, field, constrained, nsteps, avars>>

\* integrator.step(1) is called
BeginStep ==
    /\ pc = 0
    /\ nsteps < MaxSteps
    /\ pc' = 1
    /\ phases' = <<>>
    /\ phase' = -1
    /\ ops' = <<>>
    /\ UNCHANGED <<x, v, x0, irattle, xPre, vPre, xA, vA, xOrig, hist>>
    /\ Fixed

\* step type 5: allow forces to update the context state (no such force here)
UpdateContextState ==
    /\ Is("UpdateContextState", "", "")
    /\ pc' = pc + 1
    /\ Observe("update")
    /\ UNCHANGED <<x, v, x0, irattle>>
    /\ Fixed

\* v <- v + 0.5*dt*f/m
KickV ==
    /\ Is("ComputePerDof", "v", "v + 0.5*dt*f/m")
    /\ v' = [d \in Dofs |-> v[d] + Kick(field, x)[d]]
    /\ pc' = pc + 1
    /\ Observe("kick")
    /\ UNCHANGED <<x, x0, irattle>>
    /\ Fixed

\* x <- x + c*dt*v, c = num/den
DriftX ==
    /\ Is("ComputePerDof", "x", "x + c*dt*v")
    /\ x' = [d \in Dofs |-> x[d] + ((Cur.num * K) \div Cur.den) * v[d]]
    /\ pc' = pc + 1
    /\ Observe("drift")
    /\ UNCHANGED <<v, x0, irattle>>
    /\ Fixed

\* x0 <- x
SaveX0 ==
    /\ Is("ComputePerDof", "x0", "x")
    /\ x0' = x
    /\ pc' = pc + 1
    /\ Observe("save")
    /\ UNCHANGED <<x, v, irattle>>
    /\ Fixed

\* step type 3: constrain positions
ConstrainPositions ==
    /\ Is("ConstrainPositions", "", "")
    /\ x' = ProjectPositions(x)
    /\ pc' = pc + 1
    /\ Observe("constrain positions")
    /\ UNCHANGED <<v, x0, irattle>>
    /\ Fixed

\* v <- v + (x - x0)/(c*dt), c = num/den
CorrectV ==
    /\ Is("ComputePerDof", "v", "v + (x - x0)/(c*dt)")
    /\ v' = [d \in Dofs |-> v[d] + (x[d] - x0[d]) \div ((Cur.num * K) \div Cur.den)]
    /\ pc' = pc + 1
    /\ Observe("correct")
    /\ UNCHANGED <<x, x0, irattle>>
    /\ Fixed

\* step type 4: constrain velocities
ConstrainVelocities ==
    /\ Is("ConstrainVelocities", "", "")
    /\ v' = ProjectVelocities(v)
    /\ pc' = pc + 1
    /\ Observe("constrain velocities")
    /\ UNCHANGED <<x, x0, irattle>>
    /\ Fixed

\* v <- z*v + sqrt((1 - z*z)*kT/m)*gaussian; z = exp(-friction*dt)
Thermostat ==
    /\ Is("ComputePerDof", "v", "z*v + sqrt((1 - z*z)*kT/m)*gaussian")
    /\ \E g \in [Dofs -> Gaussians] :
         LET z == Z(friction)
         IN v' = [d \in Dofs |-> z * v[d] + (1 - z * z) * ThermalSpeed * g[d]]
    /\ pc' = pc + 1
    /\ Observe("thermostat")
    /\ UNCHANGED <<x, x0, irattle>>
    /\ Fixed

\* irattle <- 0
ResetCounter ==
    /\ Is("ComputeGlobal", "irattle", "0")
    /\ irattle' = 0
    /\ pc' = pc + 1
    /\ Observe("reset")
    /\ UNCHANGED <<x, v, x0>>
    /\ Fixed

\* irattle <- irattle + 1
CountSubstep ==
    /\ Is("ComputeGlobal", "irattle", "irattle + 1")
    /\ irattle' = irattle + 1
    /\ pc' = pc + 1
    /\ Observe("count")
    /\ UNCHANGED <<x, v, x0>>
    /\ Fixed

\* step type 7: while (irattle < n)
WhileBlock ==
    /\ Is("WhileBlock", "", "irattle < n")
    /\ pc' = IF irattle < Cur.num THEN pc + 1 ELSE MatchEnd(pc) + 1
    /\ Observe("while")
    /\ UNCHANGED <<x, v, x0, irattle>>
    /\ Fixed

\* step type 8: end of the while block, back to its condition
EndBlock ==
    /\ Is("EndBlock", "", "")
    /\ pc' = MatchBegin(pc)
    /\ Observe("end")
    /\ UNCHANGED <<x, v, x0, irattle>>
    /\ Fixed

\* integrator.step(1) returns
EndStep ==
    /\ pc = Len(program) + 1
    /\ pc' = 0
    /\ nsteps' = nsteps + 1
    /\ hist' = Append(hist, "step")
    /\ UNCHANGED <<rattles, friction, program, field, constrained, x, v, x0, irattle>>
    /\ UNCHANGED <<phases, phase, ops, xPre, vPre, xA, vA, xOrig, avars>>

\* between two timesteps the caller negates every velocity
NegateVelocities ==
    /\ pc = 0
    /\ hist # <<>>
    /\ hist[Len(hist)] = "step"
    /\ v' = [d \in Dofs |-> -v[d]]
    /\ hist' = Append(hist, "neg")
    /\ UNCHANGED <<rattles, friction, program, field, constrained, nsteps, pc, x, x0, irattle>>
    /\ UNCHANGED <<phases, phase, ops, xPre, vPre, xA, vA, xOrig, avars>>

InitPositions == {<<0, BondLength>>, <<3, 3 + BondLength>>}
InitVelocities == {<<2, 0>>, <<-2, 4>>, <<1, 1>>}

\* the analyzer is not in use while the integrator is checked
AnalyzerIdle ==
    /\ cvs = <<>> /\ bins = [kind |-> "scalar", value |-> 1] /\ table = <<>>
    /\ sigma = [kind |-> "None"]
    /\ apc = "idle" /\ histogram = <<>> /\ centers = <<>> /\ mean_forces = <<>>
    /\ cells = <<>> /\ forces = <<>> /\ variances = <<>>
    /\ exponent = <<>> /\ derivative = <<>>

\* the state after GeodesicBAOABIntegrator(temp, friction, dt, rattles)
Init ==
    /\ rattles \in 0..MaxRattles
    /\ friction \in Frictions
    /\ program = Build(rattles)
    /\ pc = 0
    /\ x \in InitPositions
    /\ v \in InitVelocities
    /\ x0 = [d \in Dofs |-> 0]
    /\ irattle = 0
    /\ field \in Fields
    /\ constrained \in BOOLEAN
    /\ nsteps = 0
    /\ phases = <<>> /\ phase = -1 /\ ops = <<>>
    /\ xPre = x /\ vPre = v /\ xA = x /\ vA = v /\ xOrig = x
    /\ hist = <<>>
    /\ AnalyzerIdle

Next ==
    \/ BeginStep
    \/ UpdateContextState
    \/ KickV
    \/ DriftX
    \/ SaveX0
    \/ ConstrainPositions
    \/ CorrectV
    \/ ConstrainVelocities
    \/ Thermostat
    \/ ResetCounter
    \/ CountSubstep
    \/ WhileBlock
    \/ EndBlock
    \/ EndStep
    \/ NegateVelocities

Spec == Init /\ [][Next]_vars

(***************************************************************************)
(* Properties of the integrator                                            *)
(***************************************************************************)
Control == {"reset", "while", "count", "end"}
IsWork(o) == o \notin Control
Effective(seq) == SelectSeq(seq, IsWork)
IsDrift(o) == o = "drift"
IsCount(o) == o = "count"
IsPositionFix(o) == o = "constrain positions"

RECURSIVE Repeat(_, _)
Repeat(k, seq) == IF k <= 0 THEN <<>> ELSE seq \o Repeat(k - 1, seq)

IsPrefix(a, b) == Len(a) <= Len(b) /\ SubSeq(b, 1, Len(a)) = a

CurPhase == IF phases = <<>> THEN "" ELSE phases[Len(phases)]
LastOp == IF ops = <<>> THEN "" ELSE ops[Len(ops)]
\* the phase of the last executed step has run to its end
PhaseDone == ops # <<>> /\ (~Running \/ Cur.ph # phase)
TimestepDone == pc = Len(program) + 1

Scheme == <<"U", "B", "A", "O", "A", "B">>
Substep == <<"drift", "save", "constrain positions", "correct", "constrain velocities">>

\* C1: whatever rattles is, a timestep runs the context-state update and then
\* the phases B, A, O, A, B in this order and no other: the phases entered so
\* far are always a prefix of U B A O A B, a finished timestep has entered all
\* six, the five after the update read the same backwards, and each phase does
\* its own update: B one force kick of v, A drifts of x, O one thermostat
\* update of v.
C1_PhaseOrder ==
    /\ IsPrefix(phases, Scheme)
    /\ TimestepDone =>
          /\ phases = Scheme
          /\ \A i \in 2..6 : phases[i] = phases[8 - i]
    /\ (PhaseDone /\ CurPhase = "U") => ops = <<"update">>
    /\ (PhaseDone /\ CurPhase = "B") =>
          Effective(ops) \in {<<"kick">>, <<"kick", "constrain velocities">>}
    /\ (PhaseDone /\ CurPhase = "O") =>
          Effective(ops) \in {<<"thermostat">>, <<"thermostat", "constrain velocities">>}
    /\ (PhaseDone /\ CurPhase = "A") =>
          /\ Effective(ops)[1] = "drift"
          /\ \A i \in 1..Len(ops) : ops[i] \notin {"kick", "thermostat", "update"}
    /\ (LastOp = "kick" /\ pc # 0) => v = [d \in Dofs |-> vPre[d] + Kick(field, x)[d]]

C1_Witness ==
    /\ TimestepDone /\ nsteps = 1 /\ rattles = 2
    /\ phases = Scheme

\* C2: with rattles = 0 no step of any phase constrains positions or
\* velocities, none saves x0 and none corrects v from x0: the program holds no
\* such step and none is ever executed.
C2_NoProjection ==
    rattles = 0 =>
        /\ \A i \in 1..Len(ops) :
              ops[i] \notin {"constrain positions", "constrain velocities", "correct", "save"}
        /\ \A i \in 1..Len(program) :
              /\ program[i].type \notin {"ConstrainPositions", "ConstrainVelocities"}
              /\ program[i].target # "x0"
        /\ x0 = [d \in Dofs |-> 0]

C2_Witness ==
    /\ rattles = 0 /\ constrained /\ TimestepDone /\ nsteps = 1
    /\ ~OnManifold(x)

\* C3: with rattles = n >= 1 a finished A-step has executed exactly n substeps,
\* each one drift, save of x0, position projection, velocity correction and
\* velocity projection in this order; the drift moves x by (0.5/n)*dt*v, the
\* save makes x0 equal x, the correction adds (x - x0)/((0.5/n)*dt) to v; for
\* n > 1 the A-step starts by resetting irattle to 0, irattle counts the
\* finished substeps and never exceeds n.
C3_Substeps ==
    (rattles >= 1 /\ CurPhase = "A") =>
        /\ PhaseDone =>
              /\ Effective(ops) = Repeat(rattles, Substep)
              /\ Len(SelectSeq(ops, IsPositionFix)) = rattles
        /\ Len(SelectSeq(ops, IsDrift)) <= rattles
        /\ IsPrefix(Effective(ops), Repeat(rattles, Substep))
        /\ LastOp = "drift" =>
              x = [d \in Dofs |-> xPre[d] + (K \div (2 * rattles)) * vPre[d]]
        /\ LastOp = "save" => x0 = x
        /\ LastOp = "correct" =>
              v = [d \in Dofs |-> vPre[d] + (x[d] - x0[d]) \div (K \div (2 * rattles))]
        /\ rattles > 1 =>
              /\ ops[1] = "reset"
              /\ Len(ops) = 1 => irattle = 0
              /\ irattle = Len(SelectSeq(ops, IsCount))
              /\ irattle <= rattles
              /\ PhaseDone => irattle = rattles

C3_Witness ==
    /\ rattles = 3 /\ CurPhase = "A" /\ PhaseDone /\ irattle = 3
    /\ Len(SelectSeq(ops, IsPositionFix)) = 3
    /\ constrained

\* C4: in a system without constraints, for rattles = n >= 1 a finished A-step
\* has moved x by 0.5*dt*v in total, the displacement of the single drift of
\* rattles = 1, and has left v as it was.
C4_TotalDrift ==
    (~constrained /\ rattles >= 1 /\ CurPhase = "A" /\ PhaseDone) =>
        /\ x = [d \in Dofs |-> xA[d] + (K \div 2) * vA[d]]
        /\ v = vA

C4_Witness ==
    /\ ~constrained /\ rattles = 3 /\ CurPhase = "A" /\ PhaseDone
    /\ vA # [d \in Dofs |-> 0]
    /\ x # xA

\* C5: with the O-step the identity on v (friction = 0), one timestep, then a
\* negation of every velocity, then one more timestep bring the positions back
\* to the original ones, whatever the (position-dependent) force field: the
\* positions when the second timestep has returned are those at construction.
C5_Reversible ==
    (friction = 0 /\ hist = <<"step", "neg", "step">> /\ pc = 0) => x = xOrig

C5_Witness ==
    /\ friction = 0 /\ hist = <<"step", "neg", "step">> /\ pc = 0
    /\ v # [d \in Dofs |-> 0]
    /\ rattles = 2 /\ constrained /\ field = "wave"
    /\ x = xOrig

(***************************************************************************)
(* The analyzer (analysis.py)                                              *)
(*                                                                         *)
(* CV values, extended-variable values and force constants are whole        *)
(* numbers of one unit; a mean and a variance are exact fractions           *)
(* <<numerator, denominator>> in lowest terms.  An int-or-list argument is  *)
(* a record [kind, value] with kind "scalar" or "list"; sigma may also be   *)
(* [kind |-> "None"].                                                       *)
(***************************************************************************)
MaxRows == 2

\* a rational a/b, b > 0, in lowest terms
Frac(a, b) == LET g == Gcd(Abs(a), b) IN <<a \div g, b \div g>>
NaN == <<0, 0>>

CV(id, periodic, lo, hi, fc) ==
    [id |-> id, periodic |-> periodic, min_value |-> lo, max_value |-> hi,
     force_constant |-> fc]

\* CollectiveVariable._range
Range(cv) == cv.max_value - cv.min_value

\* np.rint(a/b) for b > 0: the nearest integer, a tie going to the even one
RInt(a, b) ==
    LET q == a \div b
        r == a - q * b
    IN  IF 2 * r < b THEN q
        ELSE IF 2 * r > b THEN q + 1
        ELSE IF q % 2 = 0 THEN q ELSE q + 1

\* function(dx) of Analyzer.__init__ with the periodic branch never taken
Function_NoWrap(cv, dx) == cv.force_constant * dx

\* function(dx) of Analyzer.__init__: the restraint force of displacement dx
Function(cv, dx) ==
    IF cv.periodic
    THEN cv.force_constant * (dx - Range(cv) * RInt(dx, Range(cv)))
    ELSE cv.force_constant * dx

\* self._bins: the list itself, or the integer repeated once per CV
BinsOf(b, n) == IF b.kind = "list" THEN b.value ELSE [i \in 1..n |-> b.value]

NDim == Len(cvs)
Rows == 1..Len(table)

\* the bin of value s among nb uniform bins over [min_value, max_value]:
\* 1..nb, the right edge counted in the last bin; 0 and nb + 1 are outliers
BinIndex(cv, nb, s) ==
    IF s < cv.min_value THEN 0
    ELSE IF s > cv.max_value THEN nb + 1
    ELSE IF s = cv.max_value THEN nb
    ELSE ((s - cv.min_value) * nb) \div Range(cv) + 1

RECURSIVE Product(_, _)
Product(seq, from) == IF from > Len(seq) THEN 1 ELSE seq[from] * Product(seq, from + 1)

InsideRange(r) ==
    \A i \in 1..NDim :
        BinIndex(cvs[i], BinsOf(bins, NDim)[i], table[r].s[i]) \in 1..BinsOf(bins, NDim)[i]

RECURSIVE FlatFrom(_, _)
FlatFrom(r, i) ==
    IF i > NDim THEN 0
    ELSE (BinIndex(cvs[i], BinsOf(bins, NDim)[i], table[r].s[i]) - 1)
            * Product(BinsOf(bins, NDim), i + 1)
         + FlatFrom(r, i + 1)

\* the index of row r's cell in the flattened (row-major) statistic
FlatCell(r) == FlatFrom(r, 1)

NCells == Product(BinsOf(bins, NDim), 1)
RowsIn(c) == {r \in Rows : InsideRange(r) /\ FlatCell(r) = c}

RECURSIVE SumOver(_, _)
SumOver(f, S) ==
    IF S = {} THEN 0
    ELSE LET r == CHOOSE q \in S : TRUE IN f[r] + SumOver(f, S \ {r})

\* binned_statistic_dd, statistic 'count' and 'mean', of one cell
CountOf(c) == Cardinality(RowsIn(c))
MeanOf(f, c) == IF RowsIn(c) = {} THEN NaN ELSE Frac(SumOver(f, RowsIn(c)), CountOf(c))

\* the filter with empty cells kept as well (a mutation of histogram > 0)
Keep_All(count) == count >= 0

\* histogram > 0
Keep(count) == count > 0

RECURSIVE Where(_)
\* np.where over the flattened histogram from cell c on: the kept cells, ascending
Where(c) ==
    IF c >= NCells THEN <<>>
    ELSE (IF Keep(CountOf(c)) THEN <<c>> ELSE <<>>) \o Where(c + 1)

\* forces.append(function(dataframe[cv.id] - dataframe[f's_{cv.id}'])), per CV
ForcesOf == [i \in 1..NDim |-> [r \in Rows |-> Function(cvs[i], table[r].cv[i] - table[r].s[i])]]
SamplesOf == [i \in 1..NDim |-> [r \in Rows |-> table[r].s[i]]]

\* Analyzer.__init__
Construct ==
    /\ apc = "new"
    /\ LET index == Where(0)
       IN /\ forces' = ForcesOf
          /\ cells' = index
          /\ histogram' = [j \in 1..Len(index) |-> CountOf(index[j])]
          /\ centers' = [i \in 1..NDim |->
                           [j \in 1..Len(index) |-> MeanOf(SamplesOf[i], index[j])]]
          /\ mean_forces' = [i \in 1..NDim |->
                           [j \in 1..Len(index) |-> MeanOf(ForcesOf[i], index[j])]]
    /\ apc' = "built"
    /\ UNCHANGED <<cvs, bins, table, sigma, variances, exponent, derivative>>
    /\ UNCHANGED <<ivars, hvars>>

\* the variances of free_energy_functions(sigma)
VariancesOf(sg) ==
    IF sg.kind = "None"
    THEN [i \in 1..NDim |->
            Frac(Range(cvs[i]) * Range(cvs[i]),
                 BinsOf(bins, NDim)[i] * BinsOf(bins, NDim)[i])]
    ELSE IF sg.kind = "list"
    THEN [i \in 1..Len(sg.value) |-> Frac(sg.value[i] * sg.value[i], 1)]
    ELSE [i \in 1..NDim |-> Frac(sg.value * sg.value, 1)]

\* The loop "for cv, variance in zip(self._ufed.variables, variances)": the
\* local variables variance and factor after k iterations.  factor is
\* 2*pi/cv._range and is kept as the range it was computed from (0: unbound);
\* it is assigned in periodic iterations only.
RECURSIVE LoopVars(_, _)
LoopVars(vs, k) ==
    IF k = 0 THEN [variance |-> NaN, factor_range |-> 0]
    ELSE [variance |-> vs[k],
          factor_range |-> IF cvs[k].periodic THEN Range(cvs[k])
                           ELSE LoopVars(vs, k - 1).factor_range]

\* what the lambda appended in iteration i computes when it is called: the
\* lambdas read variance and factor from the enclosing scope at the time of the
\* call, and every call is made after the loop has ended
Closure(vs, i) ==
    LET m == Min(NDim, Len(vs))
        now == LoopVars(vs, m)
    IN  IF cvs[i].periodic
        THEN [form |-> "cos", variance |-> now.variance, range |-> now.factor_range]
        ELSE [form |-> "gauss", variance |-> now.variance, range |-> 0]

\* how free_energy_functions ends: kernel(x) reads exponent[i] for i in range(n)
\* as soon as there is one anchor; np.vstack refuses an empty list
Outcome(vs) ==
    IF Len(histogram) > 0 /\ Min(NDim, Len(vs)) < NDim THEN "IndexError"
    ELSE IF Len(histogram) = 0 THEN "ValueError"
    ELSE "fitted"

Sigmas ==
    {[kind |-> "None"], [kind |-> "scalar", value |-> 1]}
    \cup {[kind |-> "list", value |-> l] : l \in {<<1>>, <<1, 2>>, <<2, 1, 3>>}}

\* Analyzer.free_energy_functions(sigma)
FreeEnergyFunctions ==
    /\ apc = "built"
    /\ \E sg \in Sigmas :
         LET vs == VariancesOf(sg)
             m == Min(NDim, Len(vs))
         IN /\ sigma' = sg
            /\ variances' = vs
            /\ exponent' = [i \in 1..m |-> Closure(vs, i)]
            /\ derivative' = [i \in 1..m |-> Closure(vs, i)]
            /\ apc' = Outcome(vs)
    /\ UNCHANGED <<cvs, bins, table, histogram, centers, mean_forces, cells, forces>>
    /\ UNCHANGED <<ivars, hvars>>

\* the integrator is not in use while the analyzer is checked
IntegratorIdle ==
    /\ rattles = 0 /\ friction = 0 /\ program = <<>> /\ pc = -1
    /\ x = [d \in Dofs |-> 0] /\ v = [d \in Dofs |-> 0] /\ x0 = [d \in Dofs |-> 0]
    /\ irattle = 0 /\ field = "uniform" /\ constrained = FALSE /\ nsteps = 0
    /\ phases = <<>> /\ phase = -1 /\ ops = <<>>
    /\ xPre = x /\ vPre = v /\ xA = x /\ vA = v /\ xOrig = x
    /\ hist = <<>>

\* the CV descriptors of the sampled systems
P4 == CV("phi", TRUE, -2, 2, 1)
P8 == CV("psi", TRUE, -4, 4, 2)
N6 == CV("d", FALSE, 0, 6, 1)
CVLists == {<<P4>>, <<N6>>, <<P4, N6>>, <<N6, P8>>, <<P4, P8>>}

\* one recorded (CV value, extended-variable value) pair of a CV, by kind
PairOf(cv, k) ==
    LET lo == cv.min_value
        hi == cv.max_value
        half == Range(cv) \div 2
    IN  CASE k = 1 -> [cv |-> lo, s |-> lo + 1]
          [] k = 2 -> [cv |-> hi - 1, s |-> lo]
          [] k = 3 -> [cv |-> lo + half, s |-> lo]
          [] k = 4 -> [cv |-> lo, s |-> lo + half]
          [] k = 5 -> [cv |-> hi, s |-> hi + 1]
          [] k = 6 -> [cv |-> hi, s |-> hi]
PairKinds == 1..6

\* the rows a table over the CVs l may hold
RowPool(l) ==
    {[cv |-> [i \in 1..Len(l) |-> PairOf(l[i], ((k + 2 * i) % 6) + 1).cv],
      s  |-> [i \in 1..Len(l) |-> PairOf(l[i], ((k + 2 * i) % 6) + 1).s]] : k \in PairKinds}

RECURSIVE TablesUpTo(_, _)
TablesUpTo(l, n) ==
    IF n = 0 THEN {<<>>}
    ELSE LET shorter == TablesUpTo(l, n - 1)
         IN shorter \cup {Append(t, r) : t \in {u \in shorter : Len(u) = n - 1}, r \in RowPool(l)}

\* the arguments of Analyzer(ufed, dataframe, bins), before __init__ runs
InitAnalyzer ==
    /\ cvs \in CVLists
    /\ bins \in {[kind |-> "scalar", value |-> 2],
                 [kind |-> "list", value |-> [i \in 1..Len(cvs) |-> i + 1]]}
    /\ table \in TablesUpTo(cvs, MaxRows)
    /\ sigma = [kind |-> "None"]
    /\ apc = "new"
    /\ histogram = <<>> /\ centers = <<>> /\ mean_forces = <<>>
    /\ cells = <<>> /\ forces = <<>> /\ variances = <<>>
    /\ exponent = <<>> /\ derivative = <<>>
    /\ IntegratorIdle

NextAnalyzer ==
    \/ Construct
    \/ FreeEnergyFunctions

SpecAnalyzer == InitAnalyzer /\ [][NextAnalyzer]_vars

(***************************************************************************)
(* Properties of the analyzer                                              *)
(***************************************************************************)
Constructed == apc # "new"
Displacement(i, r) == table[r].cv[i] - table[r].s[i]
\* a displacement exactly half-way between two periodic images
IsTie(cv, dx) == (2 * dx) % Range(cv) = 0 /\ dx % Range(cv) # 0
SeqRange(seq) == {seq[j] : j \in 1..Len(seq)}

\* C6: after construction the anchors are exactly the cells that received a
\* sample: every histogram entry is positive and is the number of samples of
\* its cell, the cells are listed once each in ascending order, a cell without
\* samples has no entry, and histogram, centers[i] and mean_forces[i] have one
\* entry per anchor, entry j being the mean of the samples of anchor j.
C6_Anchors ==
    Constructed =>
        /\ \A j \in 1..Len(histogram) : histogram[j] > 0
        /\ Len(cells) = Len(histogram)
        /\ Len(centers) = NDim /\ Len(mean_forces) = NDim
        /\ \A i \in 1..NDim :
              /\ Len(centers[i]) = Len(histogram)
              /\ Len(mean_forces[i]) = Len(histogram)
        /\ SeqRange(cells) =
              {c \in 0..(NCells - 1) : \E r \in Rows : InsideRange(r) /\ FlatCell(r) = c}
        /\ \A j \in 1..(Len(cells) - 1) : cells[j] < cells[j + 1]
        /\ \A j \in 1..Len(cells) :
              LET members == {r \in Rows : InsideRange(r) /\ FlatCell(r) = cells[j]}
              IN  /\ histogram[j] = Cardinality(members)
                  /\ \A i \in 1..NDim :
                        /\ centers[i][j] # NaN
                        /\ mean_forces[i][j] # NaN
                        /\ centers[i][j][1] * histogram[j]
                              = centers[i][j][2] * SumOver(SamplesOf[i], members)
                        /\ mean_forces[i][j][1] * histogram[j]
                              = mean_forces[i][j][2] * SumOver(forces[i], members)

C6_Witness ==
    /\ apc = "built" /\ NDim = 2
    /\ Len(histogram) = 1 /\ histogram[1] = 1 /\ Len(histogram) < NCells
    /\ \E r \in Rows : ~InsideRange(r)

\* C7: every dimension's kernel exponent and derivative evaluate with that
\* dimension's own variance and, when periodic, its own range.
C7_OwnParameters ==
    apc = "fitted" =>
        \A i \in 1..NDim :
            /\ i \in DOMAIN exponent /\ i \in DOMAIN derivative
            /\ exponent[i].variance = variances[i]
            /\ derivative[i].variance = variances[i]
            /\ cvs[i].periodic =>
                  /\ exponent[i].range = Range(cvs[i])
                  /\ derivative[i].range = Range(cvs[i])

\* C8, as stated: the force of a periodic CV is force_constant times a
\* displacement wrapped to at most half the range, and any two displacements
\* that differ by a whole multiple of the range give the same force.
C8_SameForceForAllImages ==
    Constructed =>
        \A i \in 1..NDim : \A r1 \in Rows : \A r2 \in Rows :
            (cvs[i].periodic
               /\ (Displacement(i, r1) - Displacement(i, r2)) % Range(cvs[i]) = 0)
            => forces[i][r1] = forces[i][r2]

\* C8, amended: the force of a periodic CV is force_constant times the
\* displacement minus a whole multiple of the range, of magnitude at most half
\* the range; two displacements that differ by a whole multiple of the range
\* give the same force unless they lie exactly half-way between two images (an
\* odd multiple of range/2), where the magnitude is force_constant*range/2 and
\* the sign is the one round-half-to-even picks; a non-periodic CV's force is
\* force_constant times the displacement.
C8_Wrapped ==
    Constructed =>
        \A i \in 1..NDim : \A r1 \in Rows :
            LET cv == cvs[i]
                dx == Displacement(i, r1)
                fc == cv.force_constant
            IN  IF cv.periodic
                THEN /\ \E m \in -3..3 : forces[i][r1] = fc * (dx - m * Range(cv))
                     /\ 2 * Abs(forces[i][r1]) <= fc * Range(cv)
                     /\ IsTie(cv, dx) => 2 * Abs(forces[i][r1]) = fc * Range(cv)
                     /\ \A r2 \in Rows :
                           ((dx - Displacement(i, r2)) % Range(cv) = 0 /\ ~IsTie(cv, dx))
                           => forces[i][r1] = forces[i][r2]
                ELSE forces[i][r1] = fc * dx

C8_Witness ==
    /\ Constructed
    /\ \E i \in 1..NDim : \E r1 \in Rows : \E r2 \in Rows :
          /\ cvs[i].periodic
          /\ Displacement(i, r1) = Range(cvs[i]) - 1
          /\ Displacement(i, r2) = -1
          /\ forces[i][r1] = forces[i][r2]
          /\ forces[i][r1] = -cvs[i].force_constant

\* C9: on an empty sample table the analyzer ends in InsufficientDataError
\* before anything is computed: it is never left constructed, and never
\* reaches the fit.
C9_EmptyTableRejected ==
    (table = <<>> /\ apc # "new") => apc = "InsufficientDataError"

\* C10: free_energy_functions never returns evaluators when sigma is a list
\* whose length differs from the number of CVs.
C10_SigmaLengthChecked ==
    (sigma.kind = "list" /\ Len(sigma.value) # NDim) => apc # "fitted"

====
